---- MODULE Spec2Model ----
(***************************************************************************)
(* Model of src/app.py: the dashboard script of AI-SOLUTIONS-TOOL.          *)
(* One script run (main) loads the cached table, filters it by the date     *)
(* selection and runs sales_insights, product_insights and executive_view   *)
(* on the same filtered frame.  Dates are YYYYMMDD integers, floats are     *)
(* exact rationals extended with nan / inf / -inf.                          *)
(***************************************************************************)
EXTENDS Integers, Sequences, FiniteSets, TLC

\* ---------------------------------------------------------------- bounds
MaxRows == 3        \* rows of a source table whose dates and sales vary
MaxRatioRows == 2   \* rows of a source table whose ratio inputs vary
MaxMissing == 1     \* optional columns missing from a source table
MaxReads == 2       \* reads of the source file after which no run starts
NDates == 3         \* calendar days that rows and selections draw from

\* The calendar days of the model, ascending: two days in 2023Q1, a day in
\* April 2023 (so that March is a month without rows), then more.
Calendar == <<20230115, 20230210, 20230405, 20240105, 20240220>>
Dates == {Calendar[i] : i \in 1..NDates}

\* ------------------------------------------------------- missing values
\* pandas' missing cell (NaN / NaT) in an integer-coded column.
Null == -1

\* ------------------------------------------------------------- columns
DerivedCols == {"year", "month", "quarter"}
OptionalCols ==
  {"session_id", "ip_address", "demo_request", "ai_assistant_request",
   "conversion_status", "sales", "product_type", "jobs_placed",
   "job_type_requested", "marketing_expense", "new_customers",
   "total_customers", "churned_customers", "market_size", "campaign_id",
   "campaign_name", "campaign_spend", "campaign_revenue", "product_id",
   "delivery_time_days", "delivery_status"}
AllCols == {"date"} \cup OptionalCols

\* --------------------------------------------------- float value algebra
RECURSIVE GCD(_, _)
GCD(a, b) == IF b = 0 THEN a ELSE GCD(b, a % b)
Abs(x) == IF x < 0 THEN 0 - x ELSE x

NaNVal == [k |-> "nan", n |-> 0, d |-> 0]
PosInf == [k |-> "inf", n |-> 1, d |-> 0]
NegInf == [k |-> "-inf", n |-> -1, d |-> 0]
Unavailable == [k |-> "unavailable", n |-> 0, d |-> 0]
NotRun == [k |-> "notrun", n |-> 0, d |-> 0]
\* the exact rational n/d, d > 0, in lowest terms
Rat(n, d) ==
  LET g == GCD(Abs(n), d)
  IN [k |-> "num", n |-> n \div g, d |-> d \div g]
Num(n) == Rat(n, 1)
\* numpy float division: x/0 is inf, -inf or nan, never an exception
Div(a, b) ==
  IF b = 0 THEN (IF a > 0 THEN PosInf ELSE IF a < 0 THEN NegInf ELSE NaNVal)
  ELSE IF b < 0 THEN Rat(0 - a, 0 - b) ELSE Rat(a, b)
\* v * 100 on a float
Times100(v) == IF v.k = "num" THEN Rat(v.n * 100, v.d) ELSE v
Series(s) == [k |-> "series", s |-> s]

\* ----------------------------------------------------- sequence helpers
RECURSIVE Sum(_)
Sum(s) == IF s = <<>> THEN 0 ELSE Head(s) + Sum(Tail(s))
SetMin(S) == CHOOSE x \in S : \A y \in S : x <= y
SetMax(S) == CHOOSE x \in S : \A y \in S : y <= x
RECURSIVE SortedSeq(_)
SortedSeq(S) ==
  IF S = {} THEN <<>> ELSE <<SetMin(S)>> \o SortedSeq(S \ {SetMin(S)})
\* lexicographic order on pairs
PairLeq(p, q) == p[1] < q[1] \/ (p[1] = q[1] /\ p[2] <= q[2])
RECURSIVE SortedPairs(_)
SortedPairs(S) ==
  IF S = {} THEN <<>>
  ELSE LET m == CHOOSE p \in S : \A q \in S : PairLeq(p, q)
       IN <<m>> \o SortedPairs(S \ {m})

\* ------------------------------------------------- pandas column helpers
\* df[c].sum(): missing cells are skipped
ColSum(rows, c) == Sum([i \in 1..Len(rows) |->
                          IF rows[i][c] = Null THEN 0 ELSE rows[i][c]])
\* df[c].count(): the number of non-missing cells
ColCount(rows, c) == Cardinality({i \in 1..Len(rows) : rows[i][c] # Null})
\* df[c].nunique(): the number of distinct non-missing values
NUniqueRowCount(rows, c) == ColCount(rows, c)
NUnique(rows, c) == Cardinality({rows[i][c] : i \in 1..Len(rows)} \ {Null})
\* df[c].max(): nan on an empty column
ColMax(rows, c) ==
  LET S == {rows[i][c] : i \in 1..Len(rows)} \ {Null}
  IN IF S = {} THEN NaNVal ELSE Num(SetMax(S))
\* df[c].mean(): nan on an empty column
ColMean(rows, c) ==
  IF ColCount(rows, c) = 0 THEN NaNVal
  ELSE Div(ColSum(rows, c), ColCount(rows, c))

\* --------------------------------------------------- calendar truncation
\* .dt.year
YearOf(date) == date \div 10000
\* .dt.to_period('Q').astype(str): "2023Q1" is coded 20231
QuarterOf(date) == YearOf(date) * 10 + ((((date \div 100) % 100) - 1) \div 3) + 1
\* .dt.to_period('M').dt.to_timestamp(): the first day of the month
MonthOf(date) == (date \div 100) * 100 + 1

\* ------------------------------------------------------------ the table
\* A frame is [cols |-> the column names, rows |-> the rows].  A row holds a
\* cell for every column name; only the cells of columns in cols exist.
BaseRow ==
  [date |-> Calendar[1], session_id |-> 1, ip_address |-> 1,
   demo_request |-> 1, ai_assistant_request |-> 0, conversion_status |-> 1,
   sales |-> 2, product_type |-> 1, jobs_placed |-> 1,
   job_type_requested |-> 1, marketing_expense |-> 4, new_customers |-> 1,
   total_customers |-> 2, churned_customers |-> 1, market_size |-> 4,
   campaign_id |-> 1, campaign_name |-> 1, campaign_spend |-> 1,
   campaign_revenue |-> 2, product_id |-> 1, delivery_time_days |-> 2,
   delivery_status |-> "On Time",
   year |-> Null, month |-> Null, quarter |-> Null]
NoFrame == [cols |-> {}, rows |-> <<>>]
\* the derived column c of a row dated date
Derive(c, date) ==
  CASE c = "year" -> YearOf(date)
    [] c = "quarter" -> QuarterOf(date)
    [] c = "month" -> MonthOf(date)
\* df[c] = ...df['date'].dt...: the column is written into the frame itself
WithColumn(df, c) ==
  [cols |-> df.cols \cup {c},
   rows |-> [i \in 1..Len(df.rows) |->
               [df.rows[i] EXCEPT ![c] = Derive(c, df.rows[i].date)]]]

\* ------------------------------------------------------- groupby helpers
\* the sorted group keys of groupby(c): missing keys are dropped
GroupKeys(rows, c) == SortedSeq({rows[i][c] : i \in 1..Len(rows)} \ {Null})
GroupKeys2(rows, c1, c2) ==
  SortedPairs({<<rows[i][c1], rows[i][c2]>> : i \in 1..Len(rows)})
Group(rows, c, key) == SelectSeq(rows, LAMBDA r : r[c] = key)
Group2(rows, c1, c2, key) ==
  SelectSeq(rows, LAMBDA r : r[c1] = key[1] /\ r[c2] = key[2])
\* the groups of groupby(c), one per key, keys ascending: [key, rows]
Groups(rows, c) ==
  LET keys == GroupKeys(rows, c)
  IN [i \in 1..Len(keys) |-> [key |-> <<keys[i]>>, rows |-> Group(rows, c, keys[i])]]
Groups2(rows, c1, c2) ==
  LET keys == GroupKeys2(rows, c1, c2)
  IN [i \in 1..Len(keys) |-> [key |-> keys[i], rows |-> Group2(rows, c1, c2, keys[i])]]

\* ------------------------------------------------------------ variables
VARIABLES
  source,      \* the table in ai_solutions_web_log.csv
  cache,       \* st.cache_data's entry for load_data: [hit, value]
  reads,       \* how often pd.read_csv has read the source file
  rerun,       \* whether the current script run follows an earlier one
  pc,          \* the position of the script in main
  frames,      \* the DataFrame objects of the run: "df" and "filtered"
  filtered_df, \* which object main's filtered_df refers to
  date_range,  \* what st.sidebar.date_input returned in this run
  results      \* what each metric of the run produced
vars == <<source, cache, reads, rerun, pc, frames, filtered_df, date_range, results>>

MetricNames ==
  {"total_sales", "job_success_rate", "total_visitors", "conversion_rate",
   "quarterly_sales", "yearly_sales", "demo_conv", "ai_conv", "growth_rate",
   "campaign_roi",
   "product_counts", "conv_rates", "avg_delivery_time", "on_time_delivery_rate",
   "yearly_conversion", "latest_demo_conv", "cac", "monthly_cac",
   "retention_rate", "monthly_retention", "penetration", "monthly_penetration"}
NoResults == [m \in MetricNames |-> NotRun]

\* ------------------------------------------------------------ load_data
\* st.cache_data: the body runs on a miss only
CacheMissAlways(c) == TRUE
CacheMiss(c) == ~c.hit

\* ------------------------------------------------- filter_data_by_date
\* df[(df['date'] >= start) & (df['date'] <= end)]
DateMaskExclusiveEnd(row, start_date, end_date) ==
  row.date >= start_date /\ row.date < end_date
DateMask(row, start_date, end_date) ==
  row.date >= start_date /\ row.date <= end_date
\* the rows of filtered_df for a selection
FilterRowsOneDateIsBoth(df, range) ==
  IF Len(range) = 2
  THEN SelectSeq(df.rows, LAMBDA r : DateMask(r, range[1], range[2]))
  ELSE IF Len(range) = 1
  THEN SelectSeq(df.rows, LAMBDA r : DateMask(r, range[1], range[1]))
  ELSE df.rows
FilterRows(df, range) ==
  IF Len(range) = 2
  THEN SelectSeq(df.rows, LAMBDA r : DateMask(r, range[1], range[2]))
  ELSE df.rows
\* the object filtered_df is: boolean indexing and df.copy() both make a new one
FilteredObjectNoCopy(range) == IF Len(range) = 2 THEN "filtered" ELSE "df"
FilteredObject(range) == "filtered"
\* what the date selector can return: none, one or two days within
\* [min_value, max_value]
DateInputs(df) ==
  LET lo == SetMin({df.rows[i].date : i \in 1..Len(df.rows)})
      hi == SetMax({df.rows[i].date : i \in 1..Len(df.rows)})
      D == {d \in Dates : lo <= d /\ d <= hi}
  IN {<<>>} \cup {<<d>> : d \in D} \cup {<<a, b>> : a \in D, b \in D}

\* ------------------------------------------------------- sales_insights
\* monthly_sales['sales'].pct_change() * 100: nan for the first bucket,
\* then (current / previous - 1) * 100
PctChangeOverCurrent(prev, cur) == Times100(Div(cur - prev, cur))
PctChange(prev, cur) == Times100(Div(cur - prev, prev))
GrowthRates(monthly) ==
  Series([i \in 1..Len(monthly) |->
            [key |-> monthly[i].key,
             v |-> IF i = 1 THEN NaNVal
                   ELSE PctChange(monthly[i - 1].v.n, monthly[i].v.n)]])
\* lines 160-173: the scorecards, computed and shown before any groupby
SalesScalars(df) ==
  LET total_sessions == IF "session_id" \in df.cols
                        THEN NUnique(df.rows, "session_id") ELSE Len(df.rows)
      total_jobs_placed == IF "jobs_placed" \in df.cols
                           THEN ColSum(df.rows, "jobs_placed") ELSE 0
      total_job_requests == IF "job_type_requested" \in df.cols
                            THEN ColCount(df.rows, "job_type_requested") ELSE 0
      total_sales == IF "sales" \in df.cols THEN ColSum(df.rows, "sales") ELSE 0
      total_conversions == IF "conversion_status" \in df.cols
                           THEN ColSum(df.rows, "conversion_status") ELSE 0
      total_visitors == IF "ip_address" \in df.cols
                        THEN NUnique(df.rows, "ip_address") ELSE 0
  IN [total_sales |-> Num(total_sales),
      conversion_rate |-> IF total_sessions # 0
                          THEN Times100(Div(total_conversions, total_sessions))
                          ELSE Num(0),
      job_success_rate |-> IF total_job_requests # 0
                           THEN Times100(Div(total_jobs_placed, total_job_requests))
                           ELSE Num(0),
      \* "N/A" when the column is absent or no visitor is counted
      total_visitors |-> IF total_visitors # 0 THEN Num(total_visitors)
                         ELSE Unavailable]
\* line 178-179: groupby([.., 'product_type'])['sales'] raises KeyError
\* when product_type or sales is not a column
SalesRaises(df) == ~({"product_type", "sales"} \subseteq df.cols)
\* groupby(keys)['sales'].sum() over groups gs
SumSales(gs) ==
  Series([i \in 1..Len(gs) |->
            [key |-> gs[i].key, v |-> Num(ColSum(gs[i].rows, "sales"))]])
\* lines 196-206
DemoConv(df, flag) ==
  IF {"demo_request", "ai_assistant_request", "conversion_status"} \subseteq df.cols
  THEN Times100(ColMean(SelectSeq(df.rows, LAMBDA r : r[flag] = 1),
                        "conversion_status"))
  ELSE Unavailable
\* lines 220-230
CampaignROI(df) ==
  IF {"campaign_id", "campaign_name", "campaign_spend", "campaign_revenue"}
       \subseteq df.cols
  THEN LET gs == Groups2(df.rows, "campaign_id", "campaign_name")
       IN Series([i \in 1..Len(gs) |->
                    [key |-> gs[i].key,
                     v |-> Times100(Div(ColSum(gs[i].rows, "campaign_revenue")
                                          - ColSum(gs[i].rows, "campaign_spend"),
                                        ColSum(gs[i].rows, "campaign_spend")))]])
  ELSE Unavailable
\* the frame after sales_insights: quarter is written at line 177, month at
\* line 211 (not reached when line 178 raises)
SalesFrame(df) ==
  IF SalesRaises(df) THEN WithColumn(df, "quarter")
  ELSE WithColumn(WithColumn(df, "quarter"), "month")
\* the metrics of sales_insights; those after a raise stay as they were
SalesMetrics(df, old) ==
  LET sc == SalesScalars(df)
      q == WithColumn(df, "quarter")
      m == WithColumn(q, "month")
      head == [old EXCEPT !["total_sales"] = sc.total_sales,
                          !["conversion_rate"] = sc.conversion_rate,
                          !["job_success_rate"] = sc.job_success_rate,
                          !["total_visitors"] = sc.total_visitors]
  IN IF SalesRaises(df) THEN head
     ELSE [head EXCEPT
        !["quarterly_sales"] =
            SumSales(Groups2(q.rows, "quarter", "product_type")),
        !["yearly_sales"] =
            SumSales(Groups2(q.rows, "date", "product_type")),
        !["demo_conv"] = DemoConv(q, "demo_request"),
        !["ai_conv"] = DemoConv(q, "ai_assistant_request"),
        !["growth_rate"] =
            GrowthRates(SumSales(Groups(m.rows, "month")).s),
        !["campaign_roi"] = CampaignROI(m)]

\* ----------------------------------------------------- product_insights
\* df[c].value_counts() over the values in keys: one count per value, the
\* largest count first, equal counts in the order of first appearance
FirstIndex(rows, c, key) == SetMin({i \in 1..Len(rows) : rows[i][c] = key})
RECURSIVE ValueCounts(_, _, _)
ValueCounts(rows, c, keys) ==
  IF keys = {} THEN <<>>
  ELSE LET top == CHOOSE k \in keys : \A j \in keys :
                    \/ Len(Group(rows, c, k)) > Len(Group(rows, c, j))
                    \/ /\ Len(Group(rows, c, k)) = Len(Group(rows, c, j))
                       /\ FirstIndex(rows, c, k) <= FirstIndex(rows, c, j)
       IN <<[key |-> <<top>>, v |-> Num(Len(Group(rows, c, top)))]>>
            \o ValueCounts(rows, c, keys \ {top})
\* line 239: product_counts.iloc[0] raises IndexError on an empty frame
ProductRaises(df) == "product_type" \in df.cols /\ Len(df.rows) = 0
ProductMetrics(df, old) ==
  IF ProductRaises(df) THEN old
  ELSE [old EXCEPT
     !["product_counts"] =
         IF "product_type" \in df.cols
         THEN Series(ValueCounts(df.rows, "product_type",
                       {df.rows[i].product_type : i \in 1..Len(df.rows)} \ {Null}))
         ELSE Unavailable,
     !["conv_rates"] =
         IF {"product_type", "conversion_status"} \subseteq df.cols
         THEN LET gs == Groups(df.rows, "product_type")
              IN Series([i \in 1..Len(gs) |->
                           [key |-> gs[i].key,
                            v |-> Times100(ColMean(gs[i].rows, "conversion_status"))]])
         ELSE Unavailable,
     !["avg_delivery_time"] =
         IF {"product_id", "delivery_time_days", "delivery_status"} \subseteq df.cols
         THEN ColMean(df.rows, "delivery_time_days")
         ELSE Unavailable,
     !["on_time_delivery_rate"] =
         IF {"product_id", "delivery_time_days", "delivery_status"} \subseteq df.cols
         THEN (IF Len(df.rows) > 0
               THEN Times100(Div(Len(SelectSeq(df.rows,
                                   LAMBDA r : r.delivery_status = "On Time")),
                                 Len(df.rows)))
               ELSE Num(0))
         ELSE Unavailable]

\* ------------------------------------------------------- executive_view
\* the integer in a max() result, 0 standing for nan (used under a > 0 guard)
MaxInt(rows, c) == IF ColMax(rows, c).k = "num" THEN ColMax(rows, c).n ELSE 0
\* lines 72-77: the traffic of one year's rows
Traffic(df, g) ==
  IF "session_id" \in df.cols THEN NUnique(g, "session_id")
  ELSE IF "ip_address" \in df.cols THEN NUnique(g, "ip_address")
  ELSE Len(g)
\* lines 79-84: the year's demo requests after the left merge and fillna(0)
DemoRequests(df, g) ==
  IF "demo_request" \in df.cols
  THEN Len(SelectSeq(g, LAMBDA r : r.demo_request = 1))
  ELSE 0
\* line 85: combined['Conversion Rate (%)'], one unguarded division per year
YearlyConversion(df) ==
  LET gs == Groups(df.rows, "year")
  IN Series([i \in 1..Len(gs) |->
               [key |-> gs[i].key,
                v |-> Times100(Div(DemoRequests(df, gs[i].rows),
                                   Traffic(df, gs[i].rows)))]])
\* line 98
LatestDemoConv(df) ==
  LET s == YearlyConversion(df).s
  IN IF Len(s) > 0 THEN s[Len(s)].v ELSE Num(0)
\* lines 110-121
CAC(df) ==
  IF {"marketing_expense", "new_customers"} \subseteq df.cols
  THEN (IF ColSum(df.rows, "new_customers") > 0
        THEN Div(ColSum(df.rows, "marketing_expense"),
                 ColSum(df.rows, "new_customers"))
        ELSE Num(0))
  ELSE Unavailable
MonthlyCAC(df) ==
  IF {"marketing_expense", "new_customers"} \subseteq df.cols
  THEN LET gs == Groups(df.rows, "month")
       IN Series([i \in 1..Len(gs) |->
                    [key |-> gs[i].key,
                     v |-> IF ColSum(gs[i].rows, "new_customers") > 0
                           THEN Div(ColSum(gs[i].rows, "marketing_expense"),
                                    ColSum(gs[i].rows, "new_customers"))
                           ELSE Num(0)]])
  ELSE Unavailable
\* lines 127-138: the scalar is guarded, the monthly column is not
RetentionRate(df) ==
  IF {"total_customers", "churned_customers"} \subseteq df.cols
  THEN (IF MaxInt(df.rows, "total_customers") > 0
        THEN Times100(Div(MaxInt(df.rows, "total_customers")
                            - ColSum(df.rows, "churned_customers"),
                          MaxInt(df.rows, "total_customers")))
        ELSE Num(0))
  ELSE Unavailable
MonthlyRetention(df) ==
  IF {"total_customers", "churned_customers"} \subseteq df.cols
  THEN LET gs == Groups(df.rows, "month")
       IN Series([i \in 1..Len(gs) |->
                    [key |-> gs[i].key,
                     v |-> Times100(Div(MaxInt(gs[i].rows, "total_customers")
                                          - ColSum(gs[i].rows, "churned_customers"),
                                        MaxInt(gs[i].rows, "total_customers")))]])
  ELSE Unavailable
\* lines 144-155: the scalar is guarded, the monthly column is not
Penetration(df) ==
  IF {"total_customers", "market_size"} \subseteq df.cols
  THEN (IF MaxInt(df.rows, "market_size") > 0
        THEN Times100(Div(MaxInt(df.rows, "total_customers"),
                          MaxInt(df.rows, "market_size")))
        ELSE Num(0))
  ELSE Unavailable
MonthlyPenetration(df) ==
  IF {"total_customers", "market_size"} \subseteq df.cols
  THEN LET gs == Groups(df.rows, "month")
       IN Series([i \in 1..Len(gs) |->
                    [key |-> gs[i].key,
                     v |-> Times100(Div(MaxInt(gs[i].rows, "total_customers"),
                                        MaxInt(gs[i].rows, "market_size")))]])
  ELSE Unavailable
\* the frame after executive_view: year (line 71) and month (line 106)
ExecFrame(df) == WithColumn(WithColumn(df, "year"), "month")
ExecMetrics(df, old) ==
  LET e == ExecFrame(df)
  IN [old EXCEPT
        !["yearly_conversion"] = YearlyConversion(e),
        !["latest_demo_conv"] = LatestDemoConv(e),
        !["cac"] = CAC(e),
        !["monthly_cac"] = MonthlyCAC(e),
        !["retention_rate"] = RetentionRate(e),
        !["monthly_retention"] = MonthlyRetention(e),
        !["penetration"] = Penetration(e),
        !["monthly_penetration"] = MonthlyPenetration(e)]

\* ---------------------------------------------------------- source tables
\* tables whose rows differ in date and sales, every column present
DateRowValues ==
  {[BaseRow EXCEPT !.date = d, !.sales = v] : d \in Dates, v \in {0, 2}}
\* tables whose rows differ in the inputs of one ratio, on one day
RatioRowValues ==
  {[BaseRow EXCEPT !.session_id = s, !.conversion_status = c, !.demo_request = q]
     : s \in {Null, 1, 2}, c \in {0, 1}, q \in {0, 1}}
  \cup {[BaseRow EXCEPT !.campaign_spend = a, !.campaign_revenue = b]
     : a \in {0, 1}, b \in {0, 2}}
  \cup {[BaseRow EXCEPT !.total_customers = t, !.market_size = k]
     : t \in {0, 2}, k \in {0, 4}}
  \cup {[BaseRow EXCEPT !.new_customers = c, !.job_type_requested = j]
     : c \in {0, 1}, j \in {Null, 1}}
\* tables with optional columns missing
MissingRowValues ==
  {BaseRow, [BaseRow EXCEPT !.session_id = 2, !.conversion_status = 0,
                             !.product_type = 2]}
SeqsUpTo(S, n) == UNION {[1..k -> S] : k \in 1..n}
ColumnSets == {AllCols \ M : M \in {X \in SUBSET OptionalCols :
                                       Cardinality(X) <= MaxMissing}}
SourceTables ==
  {[cols |-> AllCols, rows |-> r] : r \in SeqsUpTo(DateRowValues, MaxRows)}
  \cup {[cols |-> AllCols, rows |-> r] : r \in SeqsUpTo(RatioRowValues, MaxRatioRows)}
  \cup {[cols |-> c, rows |-> r] : c \in ColumnSets, r \in [1..2 -> MissingRowValues]}

\* ----------------------------------------------------------------- Init
Init ==
  /\ source \in SourceTables
  /\ cache = [hit |-> FALSE, value |-> NoFrame]
  /\ reads = 0
  /\ rerun = FALSE
  /\ pc = "idle"
  /\ frames = [df |-> NoFrame, filtered |-> NoFrame]
  /\ filtered_df = "filtered"
  /\ date_range = <<>>
  /\ results = NoResults

\* -------------------------------------------------------------- actions
\* a script run starts: the first, or a rerun after a user interaction; the
\* locals of the previous run are gone
main ==
  /\ pc \in {"idle", "done", "raised"}
  /\ reads < MaxReads
  /\ rerun' = (pc # "idle")
  /\ pc' = "load_data"
  /\ frames' = [df |-> NoFrame, filtered |-> NoFrame]
  /\ filtered_df' = "filtered"
  /\ date_range' = <<>>
  /\ results' = NoResults
  /\ UNCHANGED <<source, cache, reads>>

\* line 284: df = load_data(), memoized by st.cache_data
load_data ==
  /\ pc = "load_data"
  /\ IF CacheMiss(cache)
     THEN /\ cache' = [hit |-> TRUE, value |-> source]
          /\ reads' = reads + 1
          /\ frames' = [frames EXCEPT !.df = source]
     ELSE /\ frames' = [frames EXCEPT !.df = cache.value]
          /\ UNCHANGED <<cache, reads>>
  /\ pc' = "filter_data_by_date"
  /\ UNCHANGED <<source, rerun, filtered_df, date_range, results>>

\* line 285: filtered_df = filter_data_by_date(df)
filter_data_by_date ==
  /\ pc = "filter_data_by_date"
  /\ \E range \in DateInputs(frames.df) :
       /\ date_range' = range
       /\ filtered_df' = FilteredObject(range)
       /\ frames' = [frames EXCEPT ![FilteredObject(range)] =
                       [cols |-> frames.df.cols, rows |-> FilterRows(frames.df, range)]]
  /\ pc' = "sales_insights"
  /\ UNCHANGED <<source, cache, reads, rerun, results>>

\* line 290: sales_insights(filtered_df) writes into the frame it is given
sales_insights ==
  /\ pc = "sales_insights"
  /\ results' = SalesMetrics(frames[filtered_df], results)
  /\ frames' = [frames EXCEPT ![filtered_df] = SalesFrame(frames[filtered_df])]
  /\ pc' = IF SalesRaises(frames[filtered_df]) THEN "raised" ELSE "product_insights"
  /\ UNCHANGED <<source, cache, reads, rerun, filtered_df, date_range>>

\* line 293: product_insights(filtered_df)
product_insights ==
  /\ pc = "product_insights"
  /\ results' = ProductMetrics(frames[filtered_df], results)
  /\ pc' = IF ProductRaises(frames[filtered_df]) THEN "raised" ELSE "executive_view"
  /\ UNCHANGED <<source, cache, reads, rerun, frames, filtered_df, date_range>>

\* line 296: executive_view(filtered_df) writes into the frame it is given
executive_view ==
  /\ pc = "executive_view"
  /\ results' = ExecMetrics(frames[filtered_df], results)
  /\ frames' = [frames EXCEPT ![filtered_df] = ExecFrame(frames[filtered_df])]
  /\ pc' = "done"
  /\ UNCHANGED <<source, cache, reads, rerun, filtered_df, date_range>>

Next ==
  \/ main
  \/ load_data
  \/ filter_data_by_date
  \/ sales_insights
  \/ product_insights
  \/ executive_view

Spec == Init /\ [][Next]_vars

\* =================================================================
\* Properties
\* =================================================================
\* the frame the views of the current run work on
View == frames[filtered_df]
\* the script has passed the filter in this run
Filtered == pc \in {"sales_insights", "product_insights", "executive_view",
                    "done", "raised"}
\* the script run is over, normally or by an uncaught exception
RunOver == pc \in {"done", "raised"}

\* C1: for a selection (start, end) with start <= end, filter_data_by_date
\* returns exactly the rows of the loaded table with start <= date <= end,
\* in the loaded table's order: the i-th row returned is the i-th row of the
\* loaded table that lies in the range.
C1_FilterExactInOrder ==
  (pc = "sales_insights" /\ Len(date_range) = 2 /\ date_range[1] <= date_range[2]) =>
    LET all == frames.df.rows
        S == {j \in 1..Len(all) :
                date_range[1] <= all[j].date /\ all[j].date <= date_range[2]}
    IN /\ Len(View.rows) = Cardinality(S)
       /\ \A j \in S : View.rows[Cardinality({k \in S : k <= j})] = all[j]
\* a proper, non-empty part of the table is selected, and a row on the end day
\* is in it
C1_Witness ==
  /\ pc = "sales_insights" /\ Len(date_range) = 2 /\ date_range[1] < date_range[2]
  /\ 0 < Len(View.rows) /\ Len(View.rows) < Len(frames.df.rows)
  /\ \E i \in 1..Len(View.rows) : View.rows[i].date = date_range[2]

\* C2: with fewer than two endpoints selected, filter_data_by_date returns
\* the whole loaded table: every row, unchanged, in the original order.
C2_FewerEndpointsFullTable ==
  (pc = "sales_insights" /\ Len(date_range) < 2) =>
    /\ View.rows = frames.df.rows
    /\ View.cols = frames.df.cols
    /\ frames.df = source
\* one day was selected and some row of the table is on another day
C2_Witness ==
  /\ pc = "sales_insights" /\ Len(date_range) = 1
  /\ \E i \in 1..Len(frames.df.rows) : frames.df.rows[i].date # date_range[1]
  /\ View.rows = frames.df.rows

\* the columns whose absence the specification says makes a metric unavailable
Requires ==
  [m \in MetricNames |->
     CASE m = "total_sales" -> {"sales"}
       [] m = "job_success_rate" -> {"jobs_placed", "job_type_requested"}
       [] m = "total_visitors" -> {"ip_address"}
       [] m = "conversion_rate" -> {"conversion_status"}
       [] m \in {"quarterly_sales", "yearly_sales"} -> {"sales", "product_type"}
       [] m \in {"demo_conv", "ai_conv"} ->
            {"demo_request", "ai_assistant_request", "conversion_status"}
       [] m = "growth_rate" -> {"sales"}
       [] m = "campaign_roi" ->
            {"campaign_id", "campaign_name", "campaign_spend", "campaign_revenue"}
       [] m = "product_counts" -> {"product_type"}
       [] m = "conv_rates" -> {"product_type", "conversion_status"}
       [] m \in {"avg_delivery_time", "on_time_delivery_rate"} ->
            {"product_id", "delivery_time_days", "delivery_status"}
       [] m \in {"yearly_conversion", "latest_demo_conv"} -> {"demo_request"}
       [] m \in {"cac", "monthly_cac"} -> {"marketing_expense", "new_customers"}
       [] m \in {"retention_rate", "monthly_retention"} ->
            {"total_customers", "churned_customers"}
       [] m \in {"penetration", "monthly_penetration"} ->
            {"total_customers", "market_size"}]
\* the columns a metric reads at all: the required ones and the fallbacks
Reads ==
  [m \in MetricNames |->
     Requires[m] \cup
       (CASE m = "conversion_rate" -> {"session_id"}
          [] m \in {"yearly_conversion", "latest_demo_conv"} ->
               {"session_id", "ip_address"}
          [] OTHER -> {})]

\* C3: when a script run is over, no exception was raised, and every metric
\* with a required column absent from the table is "unavailable" (never a
\* number such as 0, never left uncomputed by a raise).
C3_MissingColumnIsUnavailable ==
  RunOver =>
    /\ pc # "raised"
    /\ \A m \in MetricNames :
         ~(Requires[m] \subseteq source.cols) => results[m] = Unavailable

\* what the three views compute on a frame, one after the other
AllMetrics(df) ==
  LET s == SalesMetrics(df, NoResults)
      p == ProductMetrics(SalesFrame(df), s)
  IN ExecMetrics(SalesFrame(df), p)

\* C4: with exactly one optional column missing (and a non-empty view), once
\* the run is over every metric that does not read the column has the value
\* it has with the column present, and every metric that requires it is
\* "unavailable".
C4_OneMissingColumnIsolated ==
  (RunOver /\ Cardinality(AllCols \ source.cols) = 1 /\ Len(View.rows) > 0) =>
    LET c == CHOOSE x \in AllCols \ source.cols : TRUE
        full == AllMetrics([cols |-> AllCols,
                            rows |-> FilterRows(frames.df, date_range)])
    IN \A m \in MetricNames :
         /\ c \notin Reads[m] => results[m] = full[m]
         /\ c \in Requires[m] => results[m] = Unavailable

\* the rows of the view in one bucket of a derived or stored key column
InBucket(c, key) == {i \in 1..Len(View.rows) : View.rows[i][c] = key}
\* the sum of column c over a set of row indices of the view
RECURSIVE SumOver(_, _)
SumOver(I, c) ==
  IF I = {} THEN 0
  ELSE LET i == CHOOSE x \in I : TRUE
       IN (IF View.rows[i][c] = Null THEN 0 ELSE View.rows[i][c])
            + SumOver(I \ {i}, c)
\* the largest cell of column c over a non-empty set of row indices
MaxOver(I, c) == SetMax({View.rows[i][c] : i \in I})
AllRows == 1..Len(View.rows)
\* the keys of a metric's series, none when it is no series
KeysOf(metric) ==
  IF results[metric].k = "series"
  THEN {results[metric].s[i].key : i \in 1..Len(results[metric].s)} ELSE {}
\* the value a metric's series has for a key
ValueAt(metric, key) ==
  LET i == CHOOSE j \in 1..Len(results[metric].s) : results[metric].s[j].key = key
  IN results[metric].s[i].v

\* C5: once a run over a table with every column is done, each ratio whose
\* denominator is zero is exactly 0 (so not inf, not nan), as a scalar and
\* in every bucket of its series: conversion rate, job success rate, CAC,
\* retention, penetration, yearly demo conversion and campaign ROI.
C5_ZeroDenominatorGivesZero ==
  (pc = "done" /\ source.cols = AllCols) =>
    /\ Cardinality({View.rows[i].session_id : i \in AllRows} \ {Null}) = 0
         => results["conversion_rate"] = Num(0)
    /\ Cardinality({i \in AllRows : View.rows[i].job_type_requested # Null}) = 0
         => results["job_success_rate"] = Num(0)
    /\ SumOver(AllRows, "new_customers") = 0 => results["cac"] = Num(0)
    /\ (AllRows = {} \/ MaxOver(AllRows, "total_customers") = 0)
         => results["retention_rate"] = Num(0)
    /\ (AllRows = {} \/ MaxOver(AllRows, "market_size") = 0)
         => results["penetration"] = Num(0)
    /\ \A key \in KeysOf("monthly_cac") :
         SumOver(InBucket("month", key[1]), "new_customers") = 0
           => ValueAt("monthly_cac", key) = Num(0)
    /\ \A key \in KeysOf("monthly_retention") :
         MaxOver(InBucket("month", key[1]), "total_customers") = 0
           => ValueAt("monthly_retention", key) = Num(0)
    /\ \A key \in KeysOf("monthly_penetration") :
         MaxOver(InBucket("month", key[1]), "market_size") = 0
           => ValueAt("monthly_penetration", key) = Num(0)
    /\ \A key \in KeysOf("yearly_conversion") :
         Cardinality({View.rows[i].session_id :
                        i \in InBucket("year", key[1])} \ {Null}) = 0
           => ValueAt("yearly_conversion", key) = Num(0)
    /\ \A key \in KeysOf("campaign_roi") :
         SumOver({i \in AllRows : /\ View.rows[i].campaign_id = key[1]
                                  /\ View.rows[i].campaign_name = key[2]},
                 "campaign_spend") = 0
           => ValueAt("campaign_roi", key) = Num(0)

RatioMetrics ==
  {"conversion_rate", "demo_conv", "ai_conv", "job_success_rate", "cac",
   "retention_rate", "penetration", "on_time_delivery_rate", "latest_demo_conv"}
SeriesMetrics ==
  {"quarterly_sales", "yearly_sales", "growth_rate", "campaign_roi",
   "product_counts", "conv_rates", "monthly_cac", "monthly_retention",
   "monthly_penetration"}

\* C6: when the filtered view of a table with every column has no rows, the
\* run ends without an exception, every ratio metric is 0 and every series
\* metric is the empty series.
C6_EmptyViewZeroAndEmpty ==
  (RunOver /\ source.cols = AllCols /\ Len(View.rows) = 0) =>
    /\ pc = "done"
    /\ \A m \in RatioMetrics : results[m] = Num(0)
    /\ \A m \in SeriesMetrics : results[m] = Series(<<>>)

\* the total of the sales column over the view's rows of one calendar month
MonthSales(month) == SumOver({i \in AllRows : MonthOf(View.rows[i].date) = month}, "sales")
\* the first day of the calendar month after the month starting at first_day
NextMonth(first_day) ==
  IF (first_day \div 100) % 100 = 12 THEN first_day + 10000 - 1100
  ELSE first_day + 100
\* (cur - prev) / prev * 100 for prev # 0
GrowthPercent(prev, cur) ==
  IF prev > 0 THEN Rat((cur - prev) * 100, prev)
  ELSE Rat((prev - cur) * 100, 0 - prev)

\* C7 as stated: the first bucket of the growth series is null; every later
\* bucket is the calendar month right after the bucket before it, and its
\* growth is (its sales - the previous month's sales) / the previous month's
\* sales x 100.
C7_GrowthOverConsecutiveCalendarMonths ==
  results["growth_rate"].k = "series" =>
    LET g == results["growth_rate"].s
    IN /\ Len(g) >= 1 => g[1].v = NaNVal
       /\ \A i \in 2..Len(g) :
            /\ g[i].key[1] = NextMonth(g[i - 1].key[1])
            /\ MonthSales(g[i - 1].key[1]) # 0 =>
                 g[i].v = GrowthPercent(MonthSales(g[i - 1].key[1]),
                                        MonthSales(g[i].key[1]))

\* C7 amended: the buckets of the growth series are the calendar months that
\* have rows in the view, ascending; the first bucket's growth is null; a
\* later bucket's growth is (its sales - the sales of the bucket before it)
\* / the sales of the bucket before it x 100 when those are not zero, and
\* inf or nan when they are.
C7_GrowthOverConsecutiveBuckets ==
  results["growth_rate"].k = "series" =>
    LET g == results["growth_rate"].s
    IN /\ [i \in 1..Len(g) |-> g[i].key[1]]
            = SortedSeq({MonthOf(View.rows[i].date) : i \in AllRows})
       /\ Len(g) >= 1 => g[1].v = NaNVal
       /\ \A i \in 2..Len(g) :
            LET prev == MonthSales(g[i - 1].key[1])
                cur == MonthSales(g[i].key[1])
            IN IF prev # 0 THEN g[i].v = GrowthPercent(prev, cur)
               ELSE g[i].v = (IF cur > 0 THEN PosInf ELSE NaNVal)
\* a bucket that does not follow its predecessor's calendar month, with a
\* growth that is a number other than 0
C7_Witness ==
  /\ results["growth_rate"].k = "series"
  /\ \E i \in 2..Len(results["growth_rate"].s) :
       /\ results["growth_rate"].s[i].key[1]
            # NextMonth(results["growth_rate"].s[i - 1].key[1])
       /\ results["growth_rate"].s[i].v.k = "num"
       /\ results["growth_rate"].s[i].v.n # 0

DerivedIn(df) == df.cols \cap DerivedCols

\* C8 as stated: the loaded table keeps its columns and rows, and no view
\* receives a table that holds a column another view derived.
C8_EachViewOwnCopy ==
  /\ (Filtered \/ pc = "filter_data_by_date") => frames.df = source
  /\ pc \in {"product_insights", "executive_view"} => DerivedIn(View) = {}

\* C8 amended: the loaded table (the cached one and the df of every run)
\* always has exactly the source's columns and rows, none of year, month,
\* quarter; the views write them into the run's filtered frame, a separate
\* object all three share, so product_insights and executive_view receive
\* the quarter and month columns sales_insights derived.
C8_LoadedTableUntouchedViewsShareFrame ==
  /\ cache.hit => cache.value = source
  /\ (Filtered \/ pc = "filter_data_by_date") =>
       (frames.df = source /\ DerivedIn(frames.df) = {})
  /\ Filtered => filtered_df # "df"
  /\ pc \in {"product_insights", "executive_view"} =>
       DerivedIn(View) = {"quarter", "month"}
  /\ pc = "done" => DerivedIn(View) = DerivedCols
\* a rerun with the fewer-than-two-endpoints fallback has finished: the
\* filtered frame holds all three derived columns, the loaded table none
C8_Witness ==
  /\ pc = "done" /\ rerun /\ Len(date_range) < 2
  /\ DerivedIn(View) = DerivedCols
  /\ frames.df = source

\* C9: the source file is read at most once, by the first load_data call;
\* every call, the first and the later ones, returns the source's table.
C9_SourceReadOnce ==
  /\ reads <= 1
  /\ (Filtered \/ pc = "filter_data_by_date") => (reads = 1 /\ frames.df = source)
  /\ rerun => reads = 1
\* load_data has returned in a rerun whose predecessor ran all three views
C9_Witness ==
  /\ rerun /\ pc = "filter_data_by_date" /\ reads = 1 /\ frames.df = source

HasSessionAndStatus == {"session_id", "conversion_status"} \subseteq source.cols

\* C10 as stated: the conversion rate is the sum of conversion_status over
\* the number of rows that carry a session_id, x 100.
C10_ConversionOverRowsWithSession ==
  (Filtered /\ pc # "sales_insights" /\ HasSessionAndStatus) =>
    LET sessions == Cardinality({i \in AllRows : View.rows[i].session_id # Null})
    IN sessions > 0 =>
         results["conversion_rate"]
           = Rat(SumOver(AllRows, "conversion_status") * 100, sessions)

\* C10 amended: the conversion rate is the sum of conversion_status over the
\* number of distinct session_id values of the view, x 100; two rows with
\* conversion_status 1 and 0 and two different session_ids give 50.
C10_ConversionOverDistinctSessions ==
  (Filtered /\ pc # "sales_insights" /\ HasSessionAndStatus) =>
    LET ids == {View.rows[i].session_id : i \in AllRows} \ {Null}
    IN /\ Cardinality(ids) > 0 =>
            results["conversion_rate"]
              = Rat(SumOver(AllRows, "conversion_status") * 100, Cardinality(ids))
       /\ ( /\ Len(View.rows) = 2 /\ Cardinality(ids) = 2
            /\ {View.rows[1].session_id, View.rows[2].session_id} = ids
            /\ {View.rows[1].conversion_status, View.rows[2].conversion_status} = {0, 1} )
            => results["conversion_rate"] = Num(50)
\* two rows with conversion_status 1 and 0 share one session_id: the rate is
\* 100, not 50
C10_Witness ==
  /\ Filtered /\ pc # "sales_insights" /\ HasSessionAndStatus
  /\ Len(View.rows) = 2
  /\ View.rows[1].session_id = View.rows[2].session_id
  /\ View.rows[1].session_id # Null
  /\ {View.rows[1].conversion_status, View.rows[2].conversion_status} = {0, 1}
  /\ results["conversion_rate"] = Num(100)

====
